---- MODULE Spec2Model ----
(***************************************************************************)
(* Model of owfmodules/avrisp/flash_write.py: the FlashWrite module that   *)
(* erases an AVR target over SPI-ISP, programs a firmware image page by    *)
(* page and optionally reads it back.  The host code (FlashWrite) is       *)
(* translated method by method; the target is the device on the other end *)
(* of the SPI bus, which interprets the 4-byte ISP frames the host sends.  *)
(***************************************************************************)
EXTENDS Integers, Sequences, FiniteSets, TLC

(***************************************************************************)
(* Bounds of the model.                                                    *)
(***************************************************************************)
\* words per flash page (device["flash_pagesize"] is 2 * PageWords bytes)
PageWords == 2
\* longest firmware segment, in bytes
MaxLen == 6
\* longest segment of an image that has two segments, in bytes
MaxPartLen == 2
\* polls of one busy wait the model follows (the code has no limit)
MaxPolls == 2

(***************************************************************************)
(* Program constants.                                                      *)
(***************************************************************************)
\* self.extended_addr = None, extended_addr = None
None == -1
\* page_buffer[index] = 0xFF
Erased == 255
\* address >> 16
BankWords == 65536
\* time.sleep(0.5), in milliseconds
SettleMs == 500

PageSize == 2 * PageWords
BankBytes == 2 * BankWords

enable_mem_access_cmd == <<172, 83, 0, 0>>
erase_cmd == <<172, 128, 0, 0>>
poll_rdybsy_cmd == <<240, 0, 0, 0>>
low_byte_write == <<64, 0>>
high_byte_write == <<72, 0>>
write_program_memory_page == <<76>>
load_extended_addr == <<77, 0>>
low_byte_read == <<32>>
high_byte_read == <<40>>

\* struct.pack(">H", x & 0xFFFF)
PackH(x) == << (x % 65536) \div 256, (x % 65536) % 256 >>

(***************************************************************************)
(* Events on the transport port, in the order the host performs them.      *)
(***************************************************************************)
Tx(frame) == <<"tx", frame>>
Rx(byte) == <<"rx", <<byte>> >>
ResetEv(level) == <<"reset", <<level>> >>
SleepEv(ms) == <<"sleep", <<ms>> >>

IsTx(e) == e[1] = "tx"
IsLoadExt(e) == IsTx(e) /\ Len(e[2]) = 4 /\ e[2][1] = 77
IsCommit(e) == IsTx(e) /\ Len(e[2]) = 4 /\ e[2][1] = 76
IsByteLoad(e) == IsTx(e) /\ Len(e[2]) = 4 /\ e[2][1] \in {64, 72}
IsRead(e) == IsTx(e) /\ Len(e[2]) = 3 /\ e[2][1] \in {32, 40}
IsPoll(e) == IsTx(e) /\ e[2] = poll_rdybsy_cmd
IsErase(e) == IsTx(e) /\ e[2] = erase_cmd
IsEnable(e) == IsTx(e) /\ e[2] = enable_mem_access_cmd

(***************************************************************************)
(* Inputs: the device profiles, the firmware files, the verify option.     *)
(***************************************************************************)
Bytes == {Erased, 18}

SeqsUpTo(S, n) == UNION {[1..k -> S] : k \in 1..n}

Devices ==
  { [flash_size |-> PageSize, flash_pagesize |-> PageSize,
     erase_delay |-> 9000, busy_poll |-> "0x00"],
    [flash_size |-> 2 * BankBytes, flash_pagesize |-> PageSize,
     erase_delay |-> 4500, busy_poll |-> "0xff"] }

LoadAddrs == {0, BankBytes - PageSize, BankBytes}

\* a load address whose bank (word address >> 16) does not fit bytes([...])
HighAddr == 256 * BankBytes

Part(a, d) == [addr |-> a, data |-> d]

\* ihex_firmware.parts(): address-ordered runs of records that do not touch
HexImages ==
  { <<Part(a, d)>> : a \in LoadAddrs, d \in SeqsUpTo(Bytes, MaxLen) }
  \cup
  { <<Part(a1, d1), Part(a2, d2)>> :
      <<a1, a2>> \in {p \in LoadAddrs \X LoadAddrs : p[1] + MaxPartLen < p[2]},
      <<d1, d2>> \in SeqsUpTo(Bytes, MaxPartLen) \X SeqsUpTo(Bytes, MaxPartLen) }
  \cup
  { <<Part(HighAddr, d)>> : d \in SeqsUpTo(Bytes, MaxPartLen) }

\* a file that does not decode as IntelHex, written at start_address (default 0)
RawImages == { <<Part(0, d)>> : d \in SeqsUpTo(Bytes, MaxLen) }

Firmwares ==
  { [fmt |-> "ihex", parts |-> p] : p \in HexImages }
  \cup { [fmt |-> "raw", parts |-> p] : p \in RawImages }

\* the ASCII code of a hexadecimal digit
HexDigit(d) == IF d < 10 THEN 48 + d ELSE 55 + d

\* file.read() of an IntelHex file opened 'rb': the start of its first record,
\* ":LLAAAATT" (an extended linear address record when the first part lies
\* above 64 KiB, else the data record of the first part), up to MaxLen bytes
IhexText(parts) ==
  LET ext == parts[1].addr >= 65536
      count == IF ext THEN 2 ELSE Len(parts[1].data)
      a == IF ext THEN 0 ELSE parts[1].addr
      full == << 58, HexDigit(count \div 16), HexDigit(count % 16),
                 HexDigit(a \div 4096), HexDigit((a \div 256) % 16),
                 HexDigit((a \div 16) % 16), HexDigit(a % 16),
                 48, IF ext THEN 52 ELSE 48 >>
  IN SubSeq(full, 1, IF MaxLen < 9 THEN MaxLen ELSE 9)

RECURSIVE SumLen(_)
SumLen(parts) ==
  IF parts = <<>> THEN 0 ELSE Len(Head(parts).data) + SumLen(Tail(parts))

(***************************************************************************)
(* The target: flash array (word address -> <<low, high>>), the extended   *)
(* address register, the temporary page buffer, and the write in progress. *)
(***************************************************************************)
ErasedWord == <<Erased, Erased>>
EmptyPage == [i \in 0..(PageWords - 1) |-> ErasedWord]

FlashWord(t, a) == IF a \in DOMAIN t.flash THEN t.flash[a] ELSE ErasedWord

\* the word address a 16-bit frame address selects in the current bank
Selected(t, a16) == (IF t.ext = None THEN 0 ELSE t.ext) * BankWords + a16

\* the target after it received `frame`; a page write keeps it busy for
\* `busy` further polls
TargetTx(t, frame, busy) ==
  IF frame = erase_cmd
    THEN [t EXCEPT !.flash = << >>, !.page = EmptyPage]
  ELSE IF Len(frame) = 4 /\ frame[1] = 64 /\ frame[3] \in DOMAIN t.page
    THEN [t EXCEPT !.page[frame[3]] = <<frame[4], @[2]>>]
  ELSE IF Len(frame) = 4 /\ frame[1] = 72 /\ frame[3] \in DOMAIN t.page
    THEN [t EXCEPT !.page[frame[3]] = <<@[1], frame[4]>>]
  ELSE IF Len(frame) = 4 /\ frame[1] = 77
    THEN [t EXCEPT !.ext = frame[3]]
  ELSE IF Len(frame) = 4 /\ frame[1] = 76
    THEN LET base == Selected(t, frame[2] * 256 + frame[3])
             new == {base + i : i \in DOMAIN t.page}
         IN [t EXCEPT
               !.flash = [a \in (DOMAIN t.flash) \cup new |->
                            IF a \in new THEN t.page[a - base] ELSE t.flash[a]],
               !.page = EmptyPage,
               !.busy = busy]
  ELSE t

RECURSIVE TargetRun(_, _, _)
TargetRun(t, events, busy) ==
  IF events = <<>> THEN t
  ELSE TargetRun(IF IsTx(Head(events)) THEN TargetTx(t, Head(events)[2], busy) ELSE t,
                 Tail(events), busy)

\* the byte the target answers to a read frame or to the poll frame
TargetRx(t, frame) ==
  IF frame = poll_rdybsy_cmd THEN (IF t.busy > 0 THEN 1 ELSE 0)
  ELSE IF t.busy > 0 THEN Erased
  ELSE IF frame[1] = 32 THEN FlashWord(t, Selected(t, frame[2] * 256 + frame[3]))[1]
  ELSE FlashWord(t, Selected(t, frame[2] * 256 + frame[3]))[2]

\* one poll or read consumed while the page write is in progress
TargetTick(t) == [t EXCEPT !.busy = IF @ > 0 THEN @ - 1 ELSE 0]

VARIABLES
  firmware,       \* the file named by options["firmware"]
  device,         \* the profile get_device_id returned
  verifyOpt,      \* options["verify"]["Value"]
  pc,             \* where process() stands
  branch,         \* process(): "ihex" inside the try block, "raw" inside the except block
  extended_addr,  \* self.extended_addr
  busy_wait,      \* self.busy_wait
  reset,          \* reset.status
  chunks,         \* the segments the loop in process() walks
  chunk_nb,       \* index of the segment being written (1-based)
  address,        \* write(): address
  page,           \* write(): loop variable of the page loop
  page_buffer,    \* write(): page_buffer
  polls,          \* iterations of the current busy wait
  dumps,          \* verify(): the dump read back for each verified segment
  results,        \* how verify() ended for each segment, or the ValueError that ended its write()
  commits,        \* pages handed to program_page: <<chunk_nb, page, byte address>>
  wire,           \* every event on the transport port, in order
  target          \* the device on the bus

vars == <<firmware, device, verifyOpt, pc, branch, extended_addr, busy_wait, reset,
          chunks, chunk_nb, address, page, page_buffer, polls, dumps, results,
          commits, wire, target>>

Init ==
  /\ firmware \in Firmwares
  /\ device \in Devices
  /\ verifyOpt \in BOOLEAN
  /\ pc = "start"
  /\ branch = "none"
  /\ extended_addr = None
  /\ busy_wait = "unset"
  /\ reset = 1
  /\ chunks = <<>>
  /\ chunk_nb = 1
  /\ address = 0
  /\ page = 0
  /\ page_buffer = <<>>
  /\ polls = 0
  /\ dumps = <<>>
  /\ results = <<>>
  /\ commits = <<>>
  /\ wire = <<>>
  /\ target = [flash |-> [a \in {0} |-> <<0, 0>>], ext |-> None,
               page |-> EmptyPage, busy |-> 0]

(***************************************************************************)
(* FlashWrite.erase, with the lines of process() around its call.          *)
(***************************************************************************)
\* time.sleep(int(device["erase_delay"]) // 1000), in milliseconds
EraseSleepMs(dev) == (dev.erase_delay \div 1000) * 1000

\* the chip erase sent before memory access is enabled
EraseEvents_EraseFirst(dev) ==
  << ResetEv(0), ResetEv(0), Tx(erase_cmd), SleepEv(EraseSleepMs(dev)),
     Tx(enable_mem_access_cmd), SleepEv(SettleMs), ResetEv(1) >>

EraseEvents(dev) ==
  << ResetEv(0), ResetEv(0), Tx(enable_mem_access_cmd), SleepEv(SettleMs),
     Tx(erase_cmd), SleepEv(EraseSleepMs(dev)), ResetEv(1) >>

\* device["busy_poll"] == '0x00' selects _wait_poll_rdybsy
SelectBusyWait(dev) == IF dev.busy_poll = "0x00" THEN "rdybsy" ELSE "flash"

\* process() calling self.erase() once more when it takes the raw branch
ExceptEvents_EraseAgain(dev) == EraseEvents(dev)

\* process(): nothing is sent between catching the error and write()
ExceptEvents(dev) == << >>

\* process(): reset.status = 1; self.erase(...); self.busy_wait = ...
Erase ==
  /\ pc = "start"
  /\ wire' = wire \o <<ResetEv(1)>> \o EraseEvents(device)
  /\ target' = TargetRun(target, EraseEvents(device), 0)
  /\ reset' = 1
  /\ busy_wait' = SelectBusyWait(device)
  /\ pc' = "decode"
  /\ UNCHANGED <<firmware, branch, device, verifyOpt, extended_addr, chunks, chunk_nb,
                 address, page, page_buffer, polls, dumps, results, commits>>

(***************************************************************************)
(* process(): the firmware is decoded as IntelHex; a decode error selects  *)
(* the raw binary branch, which writes the whole file at start_address.    *)
(***************************************************************************)
DecodeIhex ==
  /\ pc = "decode"
  /\ firmware.fmt = "ihex"
  /\ chunks' = firmware.parts
  /\ chunk_nb' = 1
  /\ branch' = "ihex"
  /\ pc' = "write"
  /\ UNCHANGED <<firmware, device, verifyOpt, extended_addr, busy_wait, reset,
                 address, page, page_buffer, polls, dumps, results, commits,
                 wire, target>>

DecodeRaw ==
  /\ pc = "decode"
  /\ firmware.fmt = "raw"
  /\ chunks' = firmware.parts
  /\ chunk_nb' = 1
  /\ branch' = "raw"
  /\ pc' = "write"
  /\ UNCHANGED <<firmware, device, verifyOpt, extended_addr, busy_wait, reset,
                 address, page, page_buffer, polls, dumps, results, commits,
                 wire, target>>

(***************************************************************************)
(* FlashWrite.write: entry, page loop, end.                                *)
(***************************************************************************)
chunk == chunks[chunk_nb].data
start_address == chunks[chunk_nb].addr

\* page_buffer = bytearray(flash_pagesize)
NewPageBuffer(dev) == [i \in 1..dev.flash_pagesize |-> 0]

\* write() entered without enabling memory access
WriteEntryEvents_NoEnable == << ResetEv(0), SleepEv(SettleMs) >>

WriteEntryEvents == << ResetEv(0), Tx(enable_mem_access_cmd), SleepEv(SettleMs) >>

WriteBegin ==
  /\ pc = "write"
  /\ reset' = 0
  /\ wire' = wire \o WriteEntryEvents
  /\ target' = TargetRun(target, WriteEntryEvents, 0)
  /\ page_buffer' = NewPageBuffer(device)
  /\ address' = start_address
  /\ page' = 0
  /\ pc' = "page_loop"
  /\ UNCHANGED <<firmware, branch, device, verifyOpt, extended_addr, busy_wait, chunks,
                 chunk_nb, polls, dumps, results, commits>>

\* the buffer left as the previous page filled it
InitEmptyPage_Stale(buf) == buf

\* for index in range(flash_pagesize): page_buffer[index] = 0xFF
InitEmptyPage(buf) == [i \in 1..Len(buf) |-> Erased]

\* chunk[page:page + flash_pagesize]
Slice(data, from, size) ==
  [i \in 1..(IF Len(data) - from < size
               THEN (IF Len(data) > from THEN Len(data) - from ELSE 0)
               ELSE size) |-> data[from + i]]

\* for index, byte in enumerate(...): page_buffer[index] = byte
Fulfill(buf, part) == [i \in 1..Len(buf) |-> IF i <= Len(part) THEN part[i] ELSE buf[i]]

FillPage(buf, data, from) == Fulfill(InitEmptyPage(buf), Slice(data, from, Len(buf)))

\* the emptiness test comparing with the fill value of a new bytearray
PageIsEmpty_Zero(buf) == \A i \in 1..Len(buf) : buf[i] = 0

\* all([v == 0xFF for v in page_buffer])
PageIsEmpty(buf) == \A i \in 1..Len(buf) : buf[i] = Erased

\* program_page(): the byte loads of one page, two frames per word
LoadFrames(buf) ==
  [k \in 1..(2 * (Len(buf) \div 2)) |->
     IF k % 2 = 1
       THEN Tx(low_byte_write \o <<(k - 1) \div 2>> \o <<buf[k]>>)
       ELSE Tx(high_byte_write \o <<(k - 1) \div 2>> \o <<buf[k]>>)]

\* program_page(): if page_addr >> 16 != self.extended_addr
NeedsExtLoad(word_addr, cached) == (word_addr \div BankWords) # cached

ExtLoadFrames(word_addr, cached) ==
  IF NeedsExtLoad(word_addr, cached)
    THEN << Tx(load_extended_addr \o <<word_addr \div BankWords>> \o <<0>>) >>
    ELSE << >>

\* bytes([x]) raises ValueError unless 0 <= x < 256
ByteOk(x) == x \in 0..255

\* program_page(): bytes([self.extended_addr]) raises
ProgramPageRaises(word_addr, cached) ==
  NeedsExtLoad(word_addr, cached) /\ ~ByteOk(word_addr \div BankWords)

\* what results records for a segment whose write() a ValueError ended
ValueErrorResult ==
  [ret |-> "ValueError", index |-> None, expected |-> None, actual |-> None]

\* program_page(): self.extended_addr = page_addr >> 16, when it differs
CacheAfterProgram(word_addr, cached) ==
  IF NeedsExtLoad(word_addr, cached) THEN word_addr \div BankWords ELSE cached

CommitFrame(word_addr) == Tx(write_program_memory_page \o PackH(word_addr) \o <<0>>)

\* the commit sent before the extended address is loaded
ProgramPageEvents_CommitFirst(buf, byte_addr, cached) ==
  LoadFrames(buf) \o << CommitFrame(byte_addr \div 2) >>
    \o ExtLoadFrames(byte_addr \div 2, cached)

\* program_page() up to the call of self.busy_wait
ProgramPageEvents(buf, byte_addr, cached) ==
  LoadFrames(buf) \o ExtLoadFrames(byte_addr \div 2, cached)
    \o << CommitFrame(byte_addr \div 2) >>

\* write(): the address the next page is programmed at after a skipped page
AddressAfterSkip(addr, dev) == addr

\* write(): address = address + flash_pagesize
AddressAfterPage(addr, dev) == addr + dev.flash_pagesize

\* one iteration of the page loop whose page is empty: continue
WritePageSkip ==
  /\ pc = "page_loop"
  /\ page < Len(chunk)
  /\ PageIsEmpty(FillPage(page_buffer, chunk, page))
  /\ page_buffer' = FillPage(page_buffer, chunk, page)
  /\ address' = AddressAfterSkip(address, device)
  /\ page' = page + device.flash_pagesize
  /\ UNCHANGED <<firmware, branch, device, verifyOpt, pc, extended_addr, busy_wait, reset,
                 chunks, chunk_nb, polls, dumps, results, commits, wire, target>>

\* one iteration of the page loop that calls program_page, up to the busy wait
WritePageProgram ==
  /\ pc = "page_loop"
  /\ page < Len(chunk)
  /\ ~PageIsEmpty(FillPage(page_buffer, chunk, page))
  /\ ~ProgramPageRaises(address \div 2, extended_addr)
  /\ page_buffer' = FillPage(page_buffer, chunk, page)
  /\ \E busy \in 0..(MaxPolls - 1) :
       LET events == ProgramPageEvents(page_buffer', address, extended_addr)
       IN /\ wire' = wire \o events
          /\ target' = TargetRun(target, events, busy)
  /\ extended_addr' = CacheAfterProgram(address \div 2, extended_addr)
  /\ commits' = Append(commits, <<chunk_nb, page, address>>)
  /\ polls' = 0
  /\ pc' = "busy_wait"
  /\ UNCHANGED <<firmware, branch, device, verifyOpt, busy_wait, reset, chunks, chunk_nb,
                 address, page, dumps, results>>

\* one iteration of the page loop in which program_page raises ValueError
\* after the byte loads, when it builds the load-extended-address frame
WritePageRaise ==
  /\ pc = "page_loop"
  /\ page < Len(chunk)
  /\ ~PageIsEmpty(FillPage(page_buffer, chunk, page))
  /\ ProgramPageRaises(address \div 2, extended_addr)
  /\ page_buffer' = FillPage(page_buffer, chunk, page)
  /\ wire' = wire \o LoadFrames(page_buffer')
  /\ target' = TargetRun(target, LoadFrames(page_buffer'), 0)
  /\ extended_addr' = CacheAfterProgram(address \div 2, extended_addr)
  /\ dumps' = Append(dumps, << >>)
  /\ results' = Append(results, ValueErrorResult)
  /\ pc' = "value_error"
  /\ UNCHANGED <<firmware, branch, device, verifyOpt, busy_wait, reset, chunks,
                 chunk_nb, address, page, polls, commits>>

\* process(): a ValueError raised inside the try block is caught by
\* except (UnicodeDecodeError, DecodeError, ValueError) and the file is
\* written as a raw binary at start_address; raised inside the except block
\* it reaches run()
ExceptValueError ==
  /\ pc = "value_error"
  /\ IF branch = "ihex"
       THEN /\ chunks' = Append(chunks, Part(0, IhexText(firmware.parts)))
            /\ chunk_nb' = Len(chunks) + 1
            /\ branch' = "raw"
            /\ wire' = wire \o ExceptEvents(device)
            /\ target' = TargetRun(target, ExceptEvents(device), 0)
            /\ pc' = "write"
       ELSE /\ pc' = "raised"
            /\ UNCHANGED <<chunks, chunk_nb, branch, wire, target>>
  /\ UNCHANGED <<firmware, device, verifyOpt, extended_addr, busy_wait, reset,
                 address, page, page_buffer, polls, dumps, results, commits>>

\* the page loop advanced by two pages after a programmed page
ProgramPageReturns_SkipsPage ==
  /\ address' = AddressAfterPage(address, device)
  /\ page' = page + 2 * device.flash_pagesize
  /\ polls' = 0
  /\ pc' = "page_loop"

\* write(): back in the page loop after program_page returned
ProgramPageReturns ==
  /\ address' = AddressAfterPage(address, device)
  /\ page' = page + device.flash_pagesize
  /\ polls' = 0
  /\ pc' = "page_loop"

(***************************************************************************)
(* FlashWrite._wait_poll_rdybsy: one iteration of the while loop.          *)
(***************************************************************************)
\* transmit_receive(b'\xF0\x00\x00\x00')[-1] & 0x01
IsBusy(resp) == resp % 2 = 1

WaitPollRdyBsy ==
  /\ pc = "busy_wait"
  /\ busy_wait = "rdybsy"
  /\ polls < MaxPolls
  /\ LET resp == TargetRx(target, poll_rdybsy_cmd)
     IN /\ wire' = wire \o << Tx(poll_rdybsy_cmd), Rx(resp) >>
        /\ target' = TargetTick(target)
        /\ IF IsBusy(resp)
             THEN /\ polls' = polls + 1
                  /\ UNCHANGED <<pc, address, page>>
             ELSE ProgramPageReturns
  /\ UNCHANGED <<firmware, branch, device, verifyOpt, extended_addr, busy_wait, reset,
                 chunks, chunk_nb, page_buffer, dumps, results, commits>>

(***************************************************************************)
(* FlashWrite._wait_poll_flash.                                            *)
(***************************************************************************)
\* next((i for i, j in enumerate(page_buffer) if j != 0xFF), None), 0-based
RECURSIVE FirstNotErased(_, _)
FirstNotErased(buf, i) ==
  IF i >= Len(buf) THEN None
  ELSE IF buf[i + 1] # Erased THEN i
  ELSE FirstNotErased(buf, i + 1)

buff_index == FirstNotErased(page_buffer, 0)

\* the word address program_page passes to self.busy_wait
page_addr == address \div 2

\* byte_addr of the probe: page_addr + i // 2 (even i), page_addr + i // 2 - 1 (odd i)
ProbeAddr(word_addr, i) ==
  IF i % 2 = 0 THEN word_addr + (i \div 2) ELSE word_addr + (i \div 2) - 1

ProbeFrame(word_addr, i) ==
  (IF i % 2 = 0 THEN low_byte_read ELSE high_byte_read) \o PackH(ProbeAddr(word_addr, i))

\* buff_index is computed; when a byte is found the bank of the page is loaded
WaitPollFlashBegin ==
  /\ pc = "busy_wait"
  /\ busy_wait = "flash"
  /\ IF buff_index = None
       THEN /\ ProgramPageReturns
            /\ UNCHANGED <<wire, target>>
       ELSE LET events == << Tx(load_extended_addr \o <<page_addr \div BankWords>> \o <<0>>) >>
            IN /\ wire' = wire \o events
               /\ target' = TargetRun(target, events, 0)
               /\ pc' = "poll_flash"
               /\ UNCHANGED <<address, page, polls>>
  /\ UNCHANGED <<firmware, branch, device, verifyOpt, extended_addr, busy_wait, reset,
                 chunks, chunk_nb, page_buffer, dumps, results, commits>>

\* one iteration of the while True loop; on a match the cached bank is reloaded
WaitPollFlashRead ==
  /\ pc = "poll_flash"
  /\ polls < MaxPolls
  /\ LET frame == ProbeFrame(page_addr, buff_index)
         resp == TargetRx(target, frame)
         reload == << Tx(load_extended_addr \o <<extended_addr>> \o <<0>>) >>
     IN IF resp = page_buffer[buff_index + 1]
          THEN /\ wire' = wire \o << Tx(frame), Rx(resp) >> \o reload
               /\ target' = TargetRun(TargetTick(target), reload, 0)
               /\ ProgramPageReturns
          ELSE /\ wire' = wire \o << Tx(frame), Rx(resp) >>
               /\ target' = TargetTick(target)
               /\ polls' = polls + 1
               /\ UNCHANGED <<pc, address, page>>
  /\ UNCHANGED <<firmware, branch, device, verifyOpt, extended_addr, busy_wait, reset,
                 chunks, chunk_nb, page_buffer, dumps, results, commits>>

(***************************************************************************)
(* FlashWrite.verify.                                                      *)
(***************************************************************************)
\* one iteration of the read loop; st carries the local extended_addr, the
\* dump, the events sent and the target
ReadWord(st, addr) ==
  LET load == (addr \div BankWords) # st.extended_addr
      loadEv == IF load
                  THEN << Tx(load_extended_addr \o <<addr \div BankWords>> \o <<0>>) >>
                  ELSE << >>
      t == TargetRun(st.target, loadEv, 0)
      lowF == low_byte_read \o PackH(addr)
      highF == high_byte_read \o PackH(addr)
      lo == TargetRx(t, lowF)
      hi == TargetRx(t, highF)
  IN IF load /\ ~ByteOk(addr \div BankWords)
       THEN [st EXCEPT !.extended_addr = addr \div BankWords, !.raised = TRUE]
       ELSE [extended_addr |-> IF load THEN addr \div BankWords ELSE st.extended_addr,
             dump |-> st.dump \o <<lo, hi>>,
             events |-> st.events \o loadEv \o << Tx(lowF), Rx(lo), Tx(highF), Rx(hi) >>,
             target |-> t,
             raised |-> FALSE]

\* for word_index in range(0, chunk_size // 2)
RECURSIVE ReadFlash(_, _, _, _)
ReadFlash(word_index, chunk_size, start, st) ==
  IF word_index >= chunk_size \div 2 \/ st.raised THEN st
  ELSE ReadFlash(word_index + 1, chunk_size, start,
                 ReadWord(st, word_index + (start \div 2)))

\* for index, byte in enumerate(chunk): if byte != dump.getvalue()[index]
RECURSIVE CompareFrom(_, _, _)
CompareFrom(src, dump, index) ==
  IF index >= Len(src)
    THEN [ret |-> "True", index |-> None, expected |-> None, actual |-> None]
  ELSE IF index >= Len(dump)
    THEN [ret |-> "IndexError", index |-> index, expected |-> src[index + 1],
          actual |-> None]
  ELSE IF src[index + 1] # dump[index + 1]
    THEN [ret |-> "False", index |-> index, expected |-> src[index + 1],
          actual |-> dump[index + 1]]
  ELSE CompareFrom(src, dump, index + 1)

\* the comparison started at the second byte
Compare_FromOne(src, dump) == CompareFrom(src, dump, 1)

Compare(src, dump) == CompareFrom(src, dump, 0)

\* write(): the page loop is over and verify is set: self.verify(...)
WriteVerify ==
  /\ pc = "page_loop"
  /\ page >= Len(chunk)
  /\ verifyOpt
  /\ LET st == ReadFlash(0, Len(chunk), start_address,
                         [extended_addr |-> None, dump |-> << >>,
                          events |-> << >>, target |-> target,
                          raised |-> FALSE])
         res == IF st.raised THEN ValueErrorResult ELSE Compare(chunk, st.dump)
     IN /\ wire' = wire \o st.events
        /\ target' = st.target
        /\ dumps' = Append(dumps, st.dump)
        /\ results' = Append(results, res)
        /\ pc' = IF res.ret = "ValueError" THEN "value_error"
                 ELSE IF res.ret = "IndexError" THEN "raised"
                 ELSE "verified"
  /\ UNCHANGED <<firmware, branch, device, verifyOpt, extended_addr, busy_wait, reset,
                 chunks, chunk_nb, address, page, page_buffer, polls, commits>>

\* write(): reset.status = 1 and return; process(): the next part, if any
WriteEnd ==
  /\ \/ pc = "verified"
     \/ pc = "page_loop" /\ page >= Len(chunk) /\ ~verifyOpt
  /\ reset' = 1
  /\ wire' = wire \o << ResetEv(1) >>
  /\ IF branch = "ihex" /\ chunk_nb < Len(chunks)
       THEN /\ chunk_nb' = chunk_nb + 1
            /\ pc' = "write"
       ELSE /\ pc' = "done"
            /\ UNCHANGED chunk_nb
  /\ UNCHANGED <<firmware, branch, device, verifyOpt, extended_addr, busy_wait, chunks,
                 address, page, page_buffer, polls, dumps, results, commits,
                 target>>

Next ==
  \/ Erase
  \/ DecodeIhex
  \/ DecodeRaw
  \/ WriteBegin
  \/ WritePageSkip
  \/ WritePageProgram
  \/ WritePageRaise
  \/ ExceptValueError
  \/ WaitPollRdyBsy
  \/ WaitPollFlashBegin
  \/ WaitPollFlashRead
  \/ WriteVerify
  \/ WriteEnd

Spec == Init /\ [][Next]_vars

(***************************************************************************)
(* Helpers of the properties.                                              *)
(***************************************************************************)
ImageSize == SumLen(firmware.parts)

Terminated == pc \in {"done", "raised"}

\* the value of the last load-extended-address frame among w[1..n], or None
LastExtLoaded(w, n) ==
  LET idx == {j \in 1..n : IsLoadExt(w[j])}
  IN IF idx = {} THEN None
     ELSE w[CHOOSE j \in idx : \A k \in idx : k <= j][2][3]

\* the events the step appends to the wire
NewEvents == SubSeq(wire', Len(wire) + 1, Len(wire'))

\* positions of the commit frames on the wire, in order
CommitPositions == {j \in 1..Len(wire) : IsCommit(wire[j])}

\* C1: for every image smaller than flash_size, programming followed by
\* verification ends with verify() returning True for every segment and
\* nothing raised.
C1_ProgramThenVerifyMatches ==
  (verifyOpt /\ ImageSize < device.flash_size)
    => /\ pc # "raised"
       /\ \A k \in DOMAIN results : results[k].ret = "True"

\* C2: page k of a segment is handed to program_page at byte address
\* load_address + k * page_size, whatever the preceding pages held, and the
\* committed addresses of a segment are strictly ascending.
C2_PageAddressIsLoadAddressPlusOffset ==
  /\ \A k \in DOMAIN commits :
       commits[k][3] = chunks[commits[k][1]].addr + commits[k][2]
  /\ \A j, k \in DOMAIN commits :
       (j < k /\ commits[j][1] = commits[k][1]) => commits[j][3] < commits[k][3]

\* C3: an image of flash_size + 1 bytes (or more) ends with a capacity error
\* and no chip-erase, byte-load or commit frame is ever transmitted; an image
\* of exactly flash_size bytes is programmed.
C3_OversizeImageSendsNothing ==
  (ImageSize > device.flash_size)
    => \A j \in 1..Len(wire) :
         ~(IsErase(wire[j]) \/ IsByteLoad(wire[j]) \/ IsCommit(wire[j]))

\* C4: a load-extended-address frame is transmitted if and only if the bank
\* of the address about to be used differs from the bank most recently
\* loaded: no frame repeats the value the target already holds, and every
\* commit is sent with the bank of its page loaded.
C4_ExtLoadIffBankDiffers ==
  /\ \A j \in 1..Len(wire) :
       IsLoadExt(wire[j]) => wire[j][2][3] # LastExtLoaded(wire, j - 1)
  /\ \A j \in CommitPositions :
       LET k == Cardinality({i \in CommitPositions : i <= j})
       IN LastExtLoaded(wire, j) = (commits[k][3] \div 2) \div BankWords

\* C5: whenever self.extended_addr is not None it equals the value of the
\* most recent load-extended-address frame sent to the target, also after
\* verify() has run and across segments.
C5_CacheEqualsLastLoadedBank ==
  (extended_addr # None) => extended_addr = LastExtLoaded(wire, Len(wire))

\* the page of `data` that starts at byte `from`, padded with 0xFF
PaddedPage(data, from, size) ==
  [i \in 1..size |-> IF from + i <= Len(data) THEN data[from + i] ELSE Erased]

PageAllErased(data, from, size) ==
  \A i \in 1..size : PaddedPage(data, from, size)[i] = Erased

InPageLoop == pc = "page_loop" /\ page < Len(chunk)

\* C6: a page whose padded buffer is entirely 0xFF makes write() transmit
\* nothing: the iteration leaves the wire and the target as they were and
\* goes on to the next page.
C6_EmptyPageSendsNothing ==
  [][(InPageLoop /\ PageAllErased(chunk, page, device.flash_pagesize))
       => /\ wire' = wire
          /\ target' = target
          /\ pc' = "page_loop"
          /\ page' = page + device.flash_pagesize]_vars

C6_Witness ==
  /\ pc = "page_loop"
  /\ page = device.flash_pagesize
  /\ Len(chunk) > device.flash_pagesize
  /\ PageAllErased(chunk, 0, device.flash_pagesize)
  /\ \A j \in 1..Len(wire) : ~IsTx(wire[j]) \/ IsEnable(wire[j]) \/ IsErase(wire[j])

\* indices at which the source and the dump of segment k both hold a byte
\* and the bytes differ
Differing(k) ==
  {i \in 0..(Len(chunks[k].data) - 1) :
     i < Len(dumps[k]) /\ chunks[k].data[i + 1] # dumps[k][i + 1]}

\* C7: when source and dump differ verify() reports the smallest differing
\* index with the expected and the actual byte and returns False; it
\* returns True only when no index differs.
C7_VerifyReportsFirstMismatch ==
  \A k \in DOMAIN results :
    LET r == results[k]
    IN /\ r.ret = "False" =>
            /\ r.index \in Differing(k)
            /\ \A i \in Differing(k) : r.index <= i
            /\ r.expected = chunks[k].data[r.index + 1]
            /\ r.actual = dumps[k][r.index + 1]
       /\ r.ret = "True" =>
            /\ Differing(k) = {}
            /\ Len(dumps[k]) >= Len(chunks[k].data)
       /\ Differing(k) # {} => r.ret = "False"

C7_Witness ==
  \E k \in DOMAIN results :
    /\ results[k].ret = "False"
    /\ \E i \in Differing(k) : i > results[k].index

\* the level of the last reset-line action on the wire
LastResetLevel ==
  LET idx == {j \in 1..Len(wire) : wire[j][1] = "reset"}
  IN IF idx = {} THEN None
     ELSE wire[CHOOSE j \in idx : \A k \in idx : k <= j][2][1]

\* C8: every write session that terminates leaves the reset line driven
\* high as its last reset-line action.
C8_ResetHighWhenSessionEnds ==
  Terminated => (reset = 1 /\ LastResetLevel = 1)

\* C9: every iteration of the page loop builds a buffer of page_size bytes:
\* the segment bytes of that page followed by 0xFF; there is one buffer per
\* page_size bytes of the segment; a programmed page is sent as page_size/2
\* pairs of frames 40 00 i buffer[2i], 48 00 i buffer[2i+1].
C9_PageBuffersPaddedAndLoaded ==
  [][/\ InPageLoop =>
          /\ page_buffer' = PaddedPage(chunk, page, device.flash_pagesize)
          /\ pc' = "page_loop" => page' = page + device.flash_pagesize
          /\ pc' = "busy_wait" =>
               \A i \in 0..((device.flash_pagesize \div 2) - 1) :
                 /\ NewEvents[2 * i + 1] = Tx(<<64, 0, i, page_buffer'[2 * i + 1]>>)
                 /\ NewEvents[2 * i + 2] = Tx(<<72, 0, i, page_buffer'[2 * i + 2]>>)
     /\ (pc \in {"busy_wait", "poll_flash"} /\ pc' = "page_loop") =>
          /\ page' = page + device.flash_pagesize
          /\ page_buffer' = page_buffer
     /\ page_buffer' # page_buffer => pc \in {"write", "page_loop"}
     /\ InPageLoop' => page' % device.flash_pagesize = 0]_vars

C9_Witness ==
  /\ pc = "busy_wait"
  /\ Len(chunk) = device.flash_pagesize + 2
  /\ page = device.flash_pagesize
  /\ Len(commits) = 2
  /\ page_buffer[1] = chunk[page + 1] /\ page_buffer[1] # Erased
  /\ page_buffer[2] = chunk[page + 2]
  /\ \A i \in 3..device.flash_pagesize : page_buffer[i] = Erased

\* C10: within a page the byte loads go out in ascending word index, low
\* byte then high byte; the commit frame comes after all of them and after
\* the load of the extended address the page needs; byte loads are sent
\* only once the busy detection of the previous page has completed.
C10_PageFrameOrder ==
  [][/\ (pc = "page_loop" /\ pc' = "busy_wait") =>
          LET n == Len(NewEvents)
              P == device.flash_pagesize
          IN /\ n \in {P + 1, P + 2}
             /\ \A k \in 1..P :
                  /\ IsByteLoad(NewEvents[k])
                  /\ NewEvents[k][2][1] = (IF k % 2 = 1 THEN 64 ELSE 72)
                  /\ NewEvents[k][2][3] = (k - 1) \div 2
             /\ \A k \in (P + 1)..(n - 1) : IsLoadExt(NewEvents[k])
             /\ IsCommit(NewEvents[n])
             /\ LastExtLoaded(wire', n + Len(wire) - 1) = (address \div 2) \div BankWords
     /\ (\E k \in 1..Len(NewEvents) : IsByteLoad(NewEvents[k])) =>
          /\ pc = "page_loop"
          /\ target.busy = 0]_vars

C10_Witness ==
  /\ pc = "busy_wait"
  /\ Len(commits) = 2
  /\ commits[1][1] = commits[2][1]
  /\ Cardinality(CommitPositions) = 2

\* the step sends read frames of verify() (those of _wait_poll_flash are sent
\* from the busy wait)
SendsVerifyRead ==
  pc # "poll_flash" /\ \E k \in 1..Len(NewEvents) : IsRead(NewEvents[k])

SendsCommit == \E k \in 1..Len(NewEvents) : IsCommit(NewEvents[k])

\* C11 as stated: every page-commit frame of the session precedes every
\* verification read frame, so no commit is sent once verify() has read.
C11_AllCommitsBeforeAnyVerifyRead ==
  [][SendsCommit => \A d \in DOMAIN dumps : dumps[d] = << >>]_vars

\* C11 amended: verification is per segment.  verify() reads segment k back
\* only when the page loop of segment k is over and each of its pages that
\* is not all 0xFF has been handed to program_page; with verify set, the
\* pages of segment k are committed after segments 1..k-1 were verified.
C11_VerifyFollowsOwnSegment ==
  [][/\ SendsVerifyRead =>
          /\ verifyOpt
          /\ pc = "page_loop"
          /\ page >= Len(chunk)
          /\ Len(dumps) = chunk_nb - 1
          /\ Len(dumps') = chunk_nb
          /\ \A p \in 0..(Len(chunk) - 1) :
               (p % device.flash_pagesize = 0
                  /\ ~PageAllErased(chunk, p, device.flash_pagesize))
                 => \E c \in DOMAIN commits :
                      commits[c][1] = chunk_nb /\ commits[c][2] = p
     /\ (SendsCommit /\ verifyOpt) => Len(dumps) = chunk_nb - 1]_vars

C11_Witness ==
  /\ pc = "done"
  /\ Len(dumps) = 2
  /\ dumps[1] # << >>
  /\ dumps[2] # << >>
  /\ \E c \in DOMAIN commits : commits[c][1] = 1
  /\ \E c \in DOMAIN commits : commits[c][1] = 2

\* C12: the raw-binary branch is entered only when decoding fails; an error
\* raised while write() handles a HEX segment (ValueError included) reaches
\* run(), and after it no further frame is transmitted.
C12_ErrorInWriteReachesRun ==
  [][/\ pc = "value_error" => pc' = "raised"
     /\ (\E k \in DOMAIN results : results[k].ret = "ValueError") => wire' = wire
     /\ branch' = "raw" => firmware.fmt = "raw"]_vars

NotResetEvent(e) == e[1] # "reset"

\* C13: erase() drives reset low, sends AC 53 00 00, waits 500 ms, sends
\* AC 80 00 00, performs the device-specific wait and only then drives
\* reset high, with nothing else on the transport in between.
C13_EraseSequenceOrder ==
  [][(pc = "start" /\ pc' # "start") =>
       LET n == Len(NewEvents)
           first == CHOOSE i \in 1..n : /\ NotResetEvent(NewEvents[i])
                                        /\ \A j \in 1..(i - 1) : ~NotResetEvent(NewEvents[j])
       IN /\ first > 1
          /\ NewEvents[first - 1] = ResetEv(0)
          /\ n = first + 4
          /\ NewEvents[first] = Tx(enable_mem_access_cmd)
          /\ NewEvents[first + 1] = SleepEv(SettleMs)
          /\ NewEvents[first + 2] = Tx(erase_cmd)
          /\ NewEvents[first + 3][1] = "sleep"
          /\ NewEvents[first + 4] = ResetEv(1)
          /\ reset' = 1]_vars

C13_Witness ==
  /\ pc = "decode"
  /\ \E j \in 1..Len(wire) : IsErase(wire[j])
  /\ wire[Len(wire)] = ResetEv(1)

ProgramOrReadPositions ==
  {j \in 1..Len(wire) : IsByteLoad(wire[j]) \/ IsCommit(wire[j]) \/ IsRead(wire[j])}

ErasePositions == {j \in 1..Len(wire) : IsErase(wire[j])}

\* C14: in a session that reaches programming the chip-erase frame is sent
\* exactly once, before every byte-load, commit and read frame, and the
\* erase has completed (wait, then reset released) before the first of them.
C14_EraseOnceBeforeProgramming ==
  (pc \in {"write", "page_loop", "busy_wait", "poll_flash", "verified", "done"}
     \/ ProgramOrReadPositions # {})
    => /\ Cardinality(ErasePositions) = 1
       /\ \A e \in ErasePositions :
            /\ e + 2 <= Len(wire)
            /\ wire[e + 1][1] = "sleep"
            /\ wire[e + 2] = ResetEv(1)
            /\ \A j \in ProgramOrReadPositions : e + 2 < j

C14_Witness ==
  /\ pc = "done"
  /\ firmware.fmt = "ihex"
  /\ branch = "raw"
  /\ commits # << >>

\* C15: the wait after the chip-erase frame lasts at least erase_delay
\* milliseconds, whatever the device's erase delay.
C15_EraseWaitCoversDelay ==
  \A j \in 1..Len(wire) :
    (IsErase(wire[j]) /\ j < Len(wire))
      => /\ wire[j + 1][1] = "sleep"
         /\ wire[j + 1][2][1] >= device.erase_delay

\* C16: under ReadyBusyPoll the programmer proceeds after a poll response
\* with low bit 0, and once the device has reported ready the session ends
\* with reset high.
C16_RdyBsySessionEndsResetHigh ==
  (busy_wait = "rdybsy" /\ Terminated /\ \E j \in 1..Len(wire) : IsPoll(wire[j]))
    => (reset = 1 /\ LastResetLevel = 1)

\* C17: under ReadBackPoll the probe reads the flash location the first
\* non-0xFF byte of the page was committed to, so once the target has
\* stored the page the probe returns that byte and the wait ends.
C17_ProbeReadsCommittedByte ==
  (pc = "poll_flash" /\ target.busy = 0)
    => TargetRx(target, ProbeFrame(page_addr, buff_index)) = page_buffer[buff_index + 1]

\* C18: for every chunk length n >= 1 the dump verify() builds holds at
\* least n bytes and verify() ends by returning True or False, never by an
\* index error.
C18_DumpCoversChunk ==
  \A k \in DOMAIN results :
    results[k].ret \in {"True", "False", "IndexError"}
      => /\ Len(dumps[k]) >= Len(chunks[k].data)
         /\ results[k].ret # "IndexError"

\* the position of the last reset-line action before wire[j], 0 if none
LastResetBefore(j) ==
  LET idx == {r \in 1..(j - 1) : wire[r][1] = "reset"}
  IN IF idx = {} THEN 0 ELSE CHOOSE r \in idx : \A q \in idx : q <= r

\* C19: every frame is transmitted while reset is driven low, and every
\* byte-load, commit and read frame follows an enable-memory-access frame
\* sent since reset was last driven low, for each segment of the image.
C19_FramesUnderResetAfterEnable ==
  \A j \in 1..Len(wire) :
    IsTx(wire[j]) =>
      /\ LastResetBefore(j) > 0
      /\ wire[LastResetBefore(j)] = ResetEv(0)
      /\ (IsByteLoad(wire[j]) \/ IsCommit(wire[j]) \/ IsRead(wire[j]))
           => \E i \in (LastResetBefore(j) + 1)..(j - 1) : IsEnable(wire[i])

C19_Witness ==
  /\ Len(firmware.parts) = 2
  /\ pc = "done"
  /\ \E c \in DOMAIN commits : commits[c][1] = 1
  /\ \E c \in DOMAIN commits : commits[c][1] = 2
  /\ verifyOpt

====
